---- MODULE Spec2Model ----
(***************************************************************************)
(* Model of the embedding cache and retrieval engine of VV-PDFRAG:         *)
(*   models/indexer.py    DiskCacheIndexer, index_documents                *)
(*   models/retriever.py  retrieve_documents, process_results,             *)
(*                        retrieve_from_disk, compute_similarity           *)
(*   app.py               initialize_app, load_existing_indexes,           *)
(*                        load_rag_model_for_session, chat,                *)
(*                        switch_session, delete_session                   *)
(*                                                                         *)
(* Byte strings (pickled blobs, image bytes, base64 text) are sequences of *)
(* integers.  Cache keys and file names are sequences of string tokens, so *)
(* that str.endswith and str.replace act on them as they do on the text.   *)
(* An embedding is a pair of integers; because cosine similarity does not  *)
(* depend on scale, [1,0], [0,1], [0.9,0.1] are written <<10,0>>, <<0,10>>,*)
(* <<9,1>>.                                                                *)
(***************************************************************************)
EXTENDS Integers, Sequences, FiniteSets, TLC

VARIABLES
    cache,      \* cache[s]: the diskcache store at .byaldi/<s>: key -> stored bytes
    dirs,       \* the sessions whose directory static/images/<s> exists
    files,      \* files[s]: file name -> content, under static/images/<s>
    last,       \* the call that ran last: its arguments and its outcome
    RAG_models,             \* app.py's dict: session id -> registered handle
    INITIALIZATION_DONE,    \* app.config['INITIALIZATION_DONE']
    session_file,           \* sessions/<s>.json: session id -> its content
    upload_folder,          \* uploaded_documents/<s>: session id -> its listing
    req         \* the requests in flight: where each one stands, and its locals

\* the state of app.py, and of the requests that run step by step
app == <<RAG_models, INITIALIZATION_DONE, session_file, upload_folder, req>>

vars == <<cache, dirs, files, last, RAG_models, INITIALIZATION_DONE,
          session_file, upload_folder, req>>

----------------------------------------------------------------------------
(* Bounds of the model *)

MaxPages == 2       \* pages per document: page indexes 0 .. MaxPages-1
MaxK == 2           \* k ranges over 0 .. MaxK
MaxNative == 2      \* length of a native search result list

----------------------------------------------------------------------------
(* Values *)

Sessions == {"s1", "s2"}

FileA == <<"a", ".pdf">>
FileB == <<"b", ".pdf">>
FileT == <<"n", ".txt">>
PdfFiles == {FileA}
AllFiles == {FileA, FileB, FileT}

\* str(i) for a page index
Str(i) == CASE i = 0 -> "0" [] i = 1 -> "1" [] i = 2 -> "2" [] i = 3 -> "3" [] OTHER -> "9"

\* Image bytes: the first byte is the format's magic number (137 is PNG's
\* \x89, 255 is JPEG's \xff); any other first byte is no image at all.
PNG1 == <<137, 1>>
JPG2 == <<255, 2>>
BAD == <<0, 3>>
Images == {PNG1, JPG2, BAD}

Embeddings == {<<10, 0>>, <<9, 1>>, <<0, 0>>}
QueryVecs == {<<10, 0>>, <<0, 0>>}

\* Python's None, as read from cache.get on an absent key or from Result.base64
None == <<-1>>

----------------------------------------------------------------------------
(* pickle: dumps puts the protocol opcode \x80 before the payload; loads    *)
(* takes it off, and raises on None and on bytes that are no pickle.        *)

pickle_dumps(v) == <<128>> \o v

pickle_loads(b) ==
    IF b = None THEN [exc |-> "TypeError", val |-> <<>>]
    ELSE IF Len(b) > 0 /\ b[1] = 128 THEN [exc |-> "none", val |-> Tail(b)]
    ELSE [exc |-> "UnpicklingError", val |-> <<>>]

----------------------------------------------------------------------------
(* DiskCacheIndexer: the keys of a page and the four accessors *)

BaseKey(file, i) == file \o <<"_", Str(i)>>
ImageKey(key) == key \o <<"_image">>
EmbeddingKey(key) == key \o <<"_embedding">>

BaseKeys == {BaseKey(f, i) : f \in PdfFiles, i \in 0 .. MaxPages - 1}

\* diskcache's Cache.set and Cache.get on one store c
cache_set_once(c, key, bytes) ==
    [k \in DOMAIN c \cup {key} |-> IF k \in DOMAIN c THEN c[k] ELSE bytes]

cache_set(c, key, bytes) ==
    [k \in DOMAIN c \cup {key} |-> IF k = key THEN bytes ELSE c[k]]

cache_get(c, key) == IF key \in DOMAIN c THEN c[key] ELSE None

store_image(c, key, image) == cache_set(c, ImageKey(key), pickle_dumps(image))

store_embedding(c, key, embedding) ==
    cache_set(c, EmbeddingKey(key), pickle_dumps(embedding))

get_image(c, key) == pickle_loads(cache_get(c, ImageKey(key)))

get_embedding(c, key) == pickle_loads(cache_get(c, EmbeddingKey(key)))

EmptyCache == [k \in {} |-> <<>>]

----------------------------------------------------------------------------
(* Strings as token sequences: endswith, replace, and the order of keys *)

endswith(key, suffix) == Len(key) > 0 /\ key[Len(key)] = suffix

\* str.replace(old, new): every occurrence, wherever it stands in the text
replace(key, old, new) ==
    [j \in 1 .. Len(key) |-> IF key[j] = old THEN new ELSE key[j]]

\* The order of the tokens' text ('.' < digits < '_' < letters; "_embedding"
\* sorts before "_image").
TokenRank(t) ==
    CASE t = ".pdf" -> 1 [] t = ".txt" -> 2
      [] t = "0" -> 3 [] t = "1" -> 4 [] t = "2" -> 5 [] t = "3" -> 6 [] t = "9" -> 7
      [] t = "_" -> 8 [] t = "_embedding" -> 9 [] t = "_image" -> 10
      [] t = "a" -> 11 [] t = "b" -> 12 [] t = "n" -> 13
      [] OTHER -> 14

RECURSIVE KeyLess(_, _)
KeyLess(a, b) ==
    IF b = <<>> THEN FALSE
    ELSE IF a = <<>> THEN TRUE
    ELSE IF a[1] = b[1] THEN KeyLess(Tail(a), Tail(b))
    ELSE TokenRank(a[1]) < TokenRank(b[1])

\* diskcache's Cache.iterkeys(): the keys in database sort order
RECURSIVE SortedKeys(_)
SortedKeys(K) ==
    IF K = {} THEN <<>>
    ELSE LET m == CHOOSE x \in K : \A y \in K \ {x} : KeyLess(x, y)
         IN  <<m>> \o SortedKeys(K \ {m})

iterkeys(c) == SortedKeys(DOMAIN c)

----------------------------------------------------------------------------
(* compute_similarity: dot(q, d) / (norm(q) * norm(d)).  The quotient is    *)
(* kept as the pair (dot, |q|^2 |d|^2); with a zero norm numpy divides 0.0  *)
(* by 0.0 and yields nan (a warning, no exception).                         *)

dot(u, v) == u[1] * v[1] + u[2] * v[2]

compute_similarity(query_embedding, document_embedding) ==
    LET d == dot(query_embedding, document_embedding)
        nn == dot(query_embedding, query_embedding)
                * dot(document_embedding, document_embedding)
    IN  [nan |-> nn = 0, dot |-> d, nn |-> nn]

Abs(x) == IF x < 0 THEN -x ELSE x

\* float's x < y: false as soon as one side is nan
FloatLess(x, y) ==
    /\ ~x.nan
    /\ ~y.nan
    /\ x.dot * Abs(x.dot) * y.nn < y.dot * Abs(y.dot) * x.nn

----------------------------------------------------------------------------
(* list.sort(key=similarity, reverse=True) as CPython runs it on a short    *)
(* list: reverse, find the leading run, binary insertion, reverse.  Only    *)
(* FloatLess is ever asked, so a nan key leaves the order to the algorithm. *)

Reverse(seq) == [j \in 1 .. Len(seq) |-> seq[Len(seq) + 1 - j]]

SimLess(a, b) == FloatLess(a.similarity, b.similarity)

\* the length of the run that starts the list, descending when seq[2] < seq[1]
RECURSIVE RunEnd(_, _, _)
RunEnd(seq, n, descending) ==
    IF n >= Len(seq) THEN n
    ELSE IF descending = SimLess(seq[n + 1], seq[n]) THEN RunEnd(seq, n + 1, descending)
    ELSE n

\* binary search of the slot of pivot in the sorted prefix seq[1 .. r-1]
RECURSIVE Slot(_, _, _, _)
Slot(seq, pivot, l, r) ==
    IF l >= r THEN l
    ELSE LET p == l + ((r - l) \div 2)
         IN  IF SimLess(pivot, seq[p]) THEN Slot(seq, pivot, l, p)
             ELSE Slot(seq, pivot, p + 1, r)

InsertAt(seq, j, x) == SubSeq(seq, 1, j - 1) \o <<x>> \o SubSeq(seq, j, Len(seq))

RECURSIVE BinarySort(_, _)
BinarySort(seq, start) ==
    IF start > Len(seq) THEN seq
    ELSE LET pivot == seq[start]
             l == Slot(seq, pivot, 1, start)
             moved == InsertAt(SubSeq(seq, 1, start - 1), l, pivot)
                        \o SubSeq(seq, start + 1, Len(seq))
         IN  BinarySort(moved, start + 1)

SortAscending(seq) ==
    IF Len(seq) < 2 THEN seq
    ELSE LET descending == SimLess(seq[2], seq[1])
             n == RunEnd(seq, 2, descending)
             run == IF descending
                    THEN Reverse(SubSeq(seq, 1, n)) \o SubSeq(seq, n + 1, Len(seq))
                    ELSE seq
         IN  BinarySort(run, n + 1)

sort_by_similarity_reverse(results) == Reverse(SortAscending(Reverse(results)))

\* results[:k] for k >= 0
Slice(seq, k) == SubSeq(seq, 1, IF k < Len(seq) THEN k ELSE Len(seq))

----------------------------------------------------------------------------
(* retrieve_from_disk *)

Ok(v) == [exc |-> "none", val |-> v]
Raise(e) == [exc |-> e, val |-> <<>>]

\* A search result: the dict that retrieve_from_disk builds (similarity,
\* image, key) or the Result object of the native search (base64).
DictResult(similarity, image, key) ==
    [kind |-> "dict", similarity |-> similarity, image |-> image, key |-> key,
     base64 |-> None]

NativeResult(b) ==
    [kind |-> "Result", similarity |-> [nan |-> TRUE, dot |-> 0, nn |-> 0],
     image |-> None, key |-> <<>>, base64 |-> b]

\* The handle RAG: use_disk_storage is "unset" (no such attribute) or "true";
\* disk_cache names the session whose store it holds.
NativeHandle == [use_disk_storage |-> "unset", disk_cache |-> "none"]
DiskHandle(s) == [use_disk_storage |-> "true", disk_cache |-> s]
Handles == {NativeHandle} \cup {DiskHandle(s) : s \in Sessions}

\* hasattr(RAG, 'use_disk_storage') and RAG.use_disk_storage
DiskMode(RAG) == RAG.use_disk_storage # "unset" /\ RAG.use_disk_storage = "true"

\* the loop of lines 113-123 over the keys still to visit
RECURSIVE ScanKeys(_, _, _, _)
ScanKeys(c, keys, query_embedding, results) ==
    IF keys = <<>> THEN Ok(results)
    ELSE LET key == Head(keys)
         IN  IF ~endswith(key, "_embedding")
             THEN ScanKeys(c, Tail(keys), query_embedding, results)
             ELSE LET embedding == pickle_loads(cache_get(c, key))
                      image_key == replace(key, "_embedding", "_image")
                      image == pickle_loads(cache_get(c, image_key))
                  IN  IF embedding.exc # "none" THEN Raise(embedding.exc)
                      ELSE IF image.exc # "none" THEN Raise(image.exc)
                      ELSE ScanKeys(c, Tail(keys), query_embedding,
                               Append(results,
                                  DictResult(
                                      compute_similarity(query_embedding, embedding.val),
                                      image.val, key)))

\* encoded: what RAG.encode_query(query) gave, a vector or an exception
retrieve_from_disk(c, encoded, k) ==
    IF encoded.exc # "none" THEN Raise(encoded.exc)
    ELSE LET scanned == ScanKeys(c, iterkeys(c), encoded.val, <<>>)
         IN  IF scanned.exc # "none" THEN scanned
             ELSE Ok(Slice(sort_by_similarity_reverse(scanned.val), k))

----------------------------------------------------------------------------
(* process_results *)

\* base64 text of bytes: every byte moved into the text alphabet (1000 up);
\* b64decode raises binascii.Error on anything else
b64encode(b) == [j \in 1 .. Len(b) |-> b[j] + 1000]

b64decode(t) ==
    IF \A j \in 1 .. Len(t) : t[j] >= 1000
    THEN Ok([j \in 1 .. Len(t) |-> t[j] - 1000])
    ELSE Raise("binascii.Error")

\* PIL's Image.open(BytesIO(image_data)): the pixels, when the bytes start
\* with the magic number of a known format
Image_open(image_data) ==
    IF Len(image_data) > 0 /\ image_data[1] \in {137, 255}
    THEN Ok(Tail(image_data))
    ELSE Raise("UnidentifiedImageError")

\* image.save(path, format='PNG'): the bytes of the file written
png_bytes(pixels) == <<137>> \o pixels

\* hashlib.md5(image_data).hexdigest(), a digest of every byte in turn
RECURSIVE md5(_)
md5(b) == IF b = <<>> THEN 7 ELSE (md5(SubSeq(b, 1, Len(b) - 1)) * 31 + b[Len(b)]) % 65521

ImageFilename(image_data) == <<"retrieved_", md5(image_data), ".png">>

\* os.path.join('images', session_id, image_filename)
RelativePathShared(session_id, image_filename) == <<"images", "s1", image_filename>>

RelativePath(session_id, image_filename) == <<"images", session_id, image_filename>>

\* os.path.exists(image_path), for a file name under the session's directory
path_exists_never(dir, image_filename) == FALSE

path_exists(dir, image_filename) == image_filename \in DOMAIN dir

\* lines 70-76: the image bytes of one result, "skip" for the continue branch
ImageData(result, RAG) ==
    IF DiskMode(RAG)
    THEN IF result.kind = "dict" THEN Ok(result.image) ELSE Raise("TypeError")
    ELSE IF result.kind = "Result" /\ result.base64 # None /\ result.base64 # <<>>
         THEN b64decode(result.base64)
         ELSE [exc |-> "skip", val |-> <<>>]

\* the loop of lines 69-94; dir is the content of static/images/<session_id>,
\* written the paths saved so far by this call
RECURSIVE Materialize(_, _, _, _, _, _)
Materialize(results, RAG, session_id, dir, images, written) ==
    IF results = <<>>
    THEN [exc |-> "none", val |-> images, dir |-> dir, written |-> written]
    ELSE LET image_data == ImageData(Head(results), RAG)
         IN  IF image_data.exc = "skip"
             THEN Materialize(Tail(results), RAG, session_id, dir, images, written)
             ELSE IF image_data.exc # "none"
             THEN [exc |-> image_data.exc, val |-> <<>>, dir |-> dir, written |-> written]
             ELSE LET image == Image_open(image_data.val)
                      image_filename == ImageFilename(image_data.val)
                      relative_path == RelativePath(session_id, image_filename)
                      exists == path_exists(dir, image_filename)
                  IN  IF image.exc # "none"
                      THEN [exc |-> image.exc, val |-> <<>>, dir |-> dir,
                            written |-> written]
                      ELSE Materialize(Tail(results), RAG, session_id,
                               IF exists THEN dir
                               ELSE cache_set(dir, image_filename, png_bytes(image.val)),
                               Append(images, relative_path),
                               IF exists THEN written
                               ELSE Append(written, relative_path))

\* fs is the pair of dirs and files; the call creates the session's directory
\* (os.makedirs, exist_ok) and then runs the loop; process_results_clearing
\* starts from an emptied directory instead
process_results_clearing(results, RAG, session_id, fs) ==
    LET m == Materialize(results, RAG, session_id, EmptyCache, <<>>, <<>>)
    IN  [exc |-> m.exc, val |-> m.val, written |-> m.written,
         fs |-> [dirs |-> fs.dirs \cup {session_id},
                 files |-> [fs.files EXCEPT ![session_id] = m.dir]]]

process_results(results, RAG, session_id, fs) ==
    LET m == Materialize(results, RAG, session_id, fs.files[session_id], <<>>, <<>>)
    IN  [exc |-> m.exc, val |-> m.val, written |-> m.written,
         fs |-> [dirs |-> fs.dirs \cup {session_id},
                 files |-> [fs.files EXCEPT ![session_id] = m.dir]]]

----------------------------------------------------------------------------
(* retrieve_documents.  encoded is the outcome of RAG.encode_query, native1 *)
(* of the RAG.search of line 35 and native2 of the RAG.search of line 45,   *)
(* each used only if the call reaches it.                                   *)

PrimarySearch(RAG, c, k, encoded, native1) ==
    IF DiskMode(RAG) THEN retrieve_from_disk(c, encoded, k) ELSE native1

\* lines 30-40, the body of the try
PrimaryPath(RAG, c, session_id, k, encoded, native1, fs) ==
    LET results == PrimarySearch(RAG, c, k, encoded, native1)
    IN  IF results.exc # "none"
        THEN [exc |-> results.exc, val |-> <<>>, written |-> <<>>, fs |-> fs]
        ELSE process_results(results.val, RAG, session_id, fs)

\* lines 42-47, the handler of AttributeError: nothing catches what it raises
FallbackPath(RAG, session_id, native2, fs) ==
    IF native2.exc # "none"
    THEN [exc |-> native2.exc, val |-> <<>>, written |-> <<>>, fs |-> fs]
    ELSE process_results(native2.val, RAG, session_id, fs)

\* which except clause takes an exception of the try body
HandlerAnyFailure(exc) == IF exc = "none" THEN "none" ELSE "fallback"

Handler(exc) ==
    IF exc = "none" THEN "none"
    ELSE IF exc = "AttributeError" THEN "fallback"
    ELSE "empty"

retrieve_documents(RAG, c, session_id, k, encoded, native1, native2, fs) ==
    LET primary == PrimaryPath(RAG, c, session_id, k, encoded, native1, fs)
        handler == Handler(primary.exc)
        fallback == FallbackPath(RAG, session_id, native2, primary.fs)
    IN  IF handler = "none"
        THEN [status |-> "returned", exc |-> "none", val |-> primary.val,
              primary_exc |-> "none", fallbacks |-> 0,
              written |-> primary.written, fs |-> primary.fs]
        ELSE IF handler = "fallback"
        THEN [status |-> IF fallback.exc = "none" THEN "returned" ELSE "raised",
              exc |-> fallback.exc, val |-> fallback.val,
              primary_exc |-> primary.exc, fallbacks |-> 1,
              written |-> primary.written \o fallback.written, fs |-> fallback.fs]
        ELSE [status |-> "returned", exc |-> "none", val |-> <<>>,
              primary_exc |-> primary.exc, fallbacks |-> 0,
              written |-> primary.written, fs |-> primary.fs]

----------------------------------------------------------------------------
(* index_documents.  loaded is the outcome of RAGMultiModalModel              *)
(* .from_pretrained, parsed[file] that of RAG.index_document on the file:    *)
(* its pages (image, embedding), or an exception.                            *)

\* The function body binds the local name disk_cache at line 63 only; a read
\* of it on an earlier line raises UnboundLocalError.
DiskCacheBoundAt == 63

LocalBound(line) == line > DiskCacheBoundAt

\* lines 71-74: the pages of one document, image first, then embedding
RECURSIVE StorePages(_, _, _, _)
StorePages(c, file, pages, i) ==
    IF i >= Len(pages) THEN c
    ELSE LET key == BaseKey(file, i)
             withImage == store_image(c, key, pages[i + 1].image)
         IN  StorePages(store_embedding(withImage, key, pages[i + 1].embedding),
                        file, pages, i + 1)

\* lines 66-74: the documents of the folder in os.listdir order; an exception
\* of RAG.index_document leaves the loop, and what was stored stays stored
RECURSIVE IndexLoop(_, _, _)
IndexLoop(c, listing, parsed) ==
    IF listing = <<>> THEN [exc |-> "none", cache |-> c]
    ELSE LET file == Head(listing)
         IN  IF ~endswith(file, ".pdf") THEN IndexLoop(c, Tail(listing), parsed)
             ELSE IF parsed[file].exc # "none"
             THEN [exc |-> parsed[file].exc, cache |-> c]
             ELSE IndexLoop(StorePages(c, file, parsed[file].val, 0),
                            Tail(listing), parsed)

\* c is the store at index_path; the except clause of line 83 logs and
\* re-raises, and then no handle is returned (handle is a placeholder)
index_documents(c, index_path, listing, loaded, parsed) ==
    IF loaded.exc # "none"
    THEN [status |-> "raised", exc |-> loaded.exc, handle |-> NativeHandle, cache |-> c]
    ELSE IF ~LocalBound(53)
    THEN [status |-> "raised", exc |-> "UnboundLocalError", handle |-> NativeHandle,
          cache |-> c]
    ELSE LET loop == IndexLoop(c, listing, parsed)
         IN  IF loop.exc # "none"
             THEN [status |-> "raised", exc |-> loop.exc, handle |-> NativeHandle,
                   cache |-> loop.cache]
             ELSE [status |-> "returned", exc |-> "none",
                   handle |-> DiskHandle(index_path), cache |-> loop.cache]

NoCall == [op |-> "none"]

----------------------------------------------------------------------------
\* a request thread of the server, and one that handles nothing yet
Requests == {"r1", "r2"}

Idle == [pc |-> "idle"]

Init ==
    /\ cache = [s \in Sessions |-> EmptyCache]
    /\ dirs = {}
    /\ files = [s \in Sessions |-> EmptyCache]
    /\ last = NoCall
    /\ RAG_models = EmptyCache
    /\ INITIALIZATION_DONE = FALSE
    /\ session_file = EmptyCache
    /\ upload_folder = EmptyCache
    /\ req = [r \in Requests |-> Idle]

StoreImage(s, key, image) ==
    /\ cache' = [cache EXCEPT ![s] = store_image(cache[s], key, image)]
    /\ last' = [op |-> "store_image", s |-> s, key |-> key, value |-> image,
                existed |-> ImageKey(key) \in DOMAIN cache[s]]
    /\ UNCHANGED <<dirs, files>>
    /\ UNCHANGED app

StoreEmbedding(s, key, embedding) ==
    /\ cache' = [cache EXCEPT ![s] = store_embedding(cache[s], key, embedding)]
    /\ last' = [op |-> "store_embedding", s |-> s, key |-> key, value |-> embedding,
                existed |-> EmbeddingKey(key) \in DOMAIN cache[s]]
    /\ UNCHANGED <<dirs, files>>
    /\ UNCHANGED app

GetImage(s, key) ==
    /\ \E r \in {get_image(cache[s], key)} :
          last' = [op |-> "get_image", s |-> s, key |-> key, exc |-> r.exc,
                   val |-> r.val]
    /\ UNCHANGED <<cache, dirs, files>>
    /\ UNCHANGED app

GetEmbedding(s, key) ==
    /\ \E r \in {get_embedding(cache[s], key)} :
          last' = [op |-> "get_embedding", s |-> s, key |-> key, exc |-> r.exc,
                   val |-> r.val]
    /\ UNCHANGED <<cache, dirs, files>>
    /\ UNCHANGED app

----------------------------------------------------------------------------
(* The inputs the calls are drawn from *)

\* what the encoder renders for a page of a document
PageOf(file, i) ==
    [image |-> IF file = FileA THEN PNG1 ELSE JPG2,
     embedding |-> IF i = 0 THEN <<10, 0>> ELSE <<9, 1>>]

PagesOf(file, n) == [j \in 1 .. n |-> PageOf(file, j - 1)]

\* RAG.index_document on a document: it fails, or yields 1 .. MaxPages pages
ParseOutcomes(file) == {Raise("PdfError")} \cup {Ok(PagesOf(file, n)) : n \in 1 .. MaxPages}

\* os.listdir of the upload folder, after convert_docs_to_pdfs has run on it
Listings == {<<FileA>>, <<FileA, FileB>>, <<FileB, FileT, FileA>>}

LoadOutcomes == {Ok(<<>>), Raise("OSError")}

\* RAG.encode_query: a vector, or the method is missing, or the model fails
EncodeOutcomes == {Ok(q) : q \in QueryVecs} \cup {Raise("AttributeError"), Raise("RuntimeError")}

NotCalled == Raise("not called")

\* the base64 attribute of a native result
NativePayloads == {None, b64encode(PNG1)}

RECURSIVE SeqsUpTo(_, _)
SeqsUpTo(S, n) ==
    IF n = 0 THEN {<<>>}
    ELSE LET shorter == SeqsUpTo(S, n - 1)
         IN  shorter \cup {Append(q, x) : q \in shorter, x \in S}

Min(a, b) == IF a < b THEN a ELSE b

\* RAG.search(query, k=k): at most k results, or an exception
NativeOutcomes(k) ==
    {Ok(r) : r \in SeqsUpTo({NativeResult(b) : b \in NativePayloads}, Min(k, MaxNative))}
        \cup {Raise("AttributeError"), Raise("RuntimeError")}

FS == [dirs |-> dirs, files |-> files]

----------------------------------------------------------------------------
(* Actions: one per call *)

IndexDocuments(s, listing, loaded, parsed) ==
    \E r \in {index_documents(cache[s], s, listing, loaded, parsed)} :
        /\ cache' = [cache EXCEPT ![s] = r.cache]
        /\ last' = [op |-> "index_documents", s |-> s, listing |-> listing,
                    loaded |-> loaded.exc = "none", parsed |-> parsed,
                    status |-> r.status, exc |-> r.exc, handle |-> r.handle]
        /\ UNCHANGED <<dirs, files>>
        /\ UNCHANGED app

RetrieveFromDisk(RAG, encoded, k) ==
    /\ DiskMode(RAG)
    /\ \E r \in {retrieve_from_disk(cache[RAG.disk_cache], encoded, k)} :
          last' = [op |-> "retrieve_from_disk", s |-> RAG.disk_cache,
                   encoded |-> encoded, k |-> k, exc |-> r.exc, val |-> r.val]
    /\ UNCHANGED <<cache, dirs, files>>
    /\ UNCHANGED app

ProcessResults(results, RAG, session_id) ==
    \E r \in {process_results(results, RAG, session_id, FS)} :
        /\ dirs' = r.fs.dirs
        /\ files' = r.fs.files
        /\ last' = [op |-> "process_results", RAG |-> RAG, s |-> session_id,
                    results |-> results, exc |-> r.exc, val |-> r.val,
                    written |-> r.written]
        /\ UNCHANGED cache
        /\ UNCHANGED app

\* the store a handle reads: that of its disk_cache, none for a native handle
StoreOf(RAG) == IF DiskMode(RAG) THEN cache[RAG.disk_cache] ELSE EmptyCache

RetrieveDocuments(RAG, session_id, k) ==
    \E encoded \in IF DiskMode(RAG) THEN EncodeOutcomes ELSE {NotCalled} :
    \E native1 \in IF DiskMode(RAG) THEN {NotCalled} ELSE NativeOutcomes(k) :
    \E primary \in {PrimaryPath(RAG, StoreOf(RAG), session_id, k, encoded, native1, FS)} :
    \E native2 \in IF Handler(primary.exc) = "fallback"
                   THEN NativeOutcomes(k) ELSE {NotCalled} :
    \E r \in {retrieve_documents(RAG, StoreOf(RAG), session_id, k, encoded,
                                 native1, native2, FS)} :
        /\ dirs' = r.fs.dirs
        /\ files' = r.fs.files
        /\ last' = [op |-> "retrieve_documents", RAG |-> RAG,
                    s |-> session_id, k |-> k, encoded |-> encoded,
                    native1 |-> native1, native2 |-> native2, status |-> r.status,
                    exc |-> r.exc, val |-> r.val,
                    primary_exc |-> r.primary_exc,
                    fallbacks |-> r.fallbacks, written |-> r.written]
        /\ UNCHANGED cache
        /\ UNCHANGED app

----------------------------------------------------------------------------
(* app.py: the handlers as functions of the application's state st, a       *)
(* record of the stores on disk (cache, dirs, files, session_file,           *)
(* upload_folder) and of the process (RAG_models, INITIALIZATION_DONE).      *)

MaxHistory == 2     \* a query is handled while chat_history is shorter than this

\* retrieve_documents(RAG, query, session_id, k=3): chat leaves k at its default
DefaultK == 3

State ==
    [cache |-> cache, dirs |-> dirs, files |-> files, RAG_models |-> RAG_models,
     INITIALIZATION_DONE |-> INITIALIZATION_DONE, session_file |-> session_file,
     upload_folder |-> upload_folder]

\* os.path.exists(index_path) for .byaldi/<session_id>: the directory of the
\* session's store is there once the store holds something
IndexExists(c, session_id) == DOMAIN c[session_id] # {}

\* RAGMultiModalModel.from_index(index_path): a handle of the encoder's own
\* index (it has no use_disk_storage attribute), or an exception
FromIndexOutcomes == {Ok(NativeHandle), Raise("ValueError")}

\* lines 76-90; from_index is the outcome of line 84
load_rag_model_for_session(models, c, session_id, from_index) ==
    IF IndexExists(c, session_id) /\ from_index.exc = "none"
    THEN cache_set(models, session_id, from_index.val)
    ELSE models

\* lines 92-102: every directory of .byaldi in turn; from_index[s] is the
\* outcome of loading the one of s
load_existing_indexes(models, c, from_index) ==
    LET loaded == {s \in Sessions : IndexExists(c, s) /\ from_index[s].exc = "none"}
    IN  [s \in DOMAIN models \cup loaded |->
            IF s \in loaded THEN from_index[s].val ELSE models[s]]

\* lines 104-113
initialize_app(st, from_index) ==
    IF ~st.INITIALIZATION_DONE
    THEN [st EXCEPT !.RAG_models = load_existing_indexes(st.RAG_models, st.cache,
                                                         from_index),
                    !.INITIALIZATION_DONE = TRUE]
    ELSE st

\* lines 170-179: the session's data, from its file or the defaults
SessionData(sf, session_id) ==
    IF session_id \in DOMAIN sf THEN sf[session_id]
    ELSE [session_name |-> "Untitled Session", chat_history |-> <<>>,
          indexed_files |-> <<>>]

\* lines 188-197: the folder's listing after file.save of each uploaded file
RECURSIVE SaveFiles(_, _)
SaveFiles(listing, uploaded) ==
    IF uploaded = <<>> THEN listing
    ELSE SaveFiles(IF \E j \in 1 .. Len(listing) : listing[j] = Head(uploaded)
                   THEN listing ELSE Append(listing, Head(uploaded)),
                   Tail(uploaded))

\* the store a handle reads, among the stores c
StoreIn(c, RAG) == IF DiskMode(RAG) THEN c[RAG.disk_cache] ELSE EmptyCache

\* chat, lines 185-228: the upload branch.  The handle is registered before
\* indexing in chat_upload_eager, after it has returned in chat_upload.
chat_upload_eager(st, session_id, uploaded, loaded, parsed) ==
    [st |-> [st EXCEPT !.RAG_models = cache_set(@, session_id, DiskHandle(session_id))],
     success |-> FALSE, index_status |-> "raised", exc |-> "none"]

chat_upload(st, session_id, uploaded, loaded, parsed) ==
    LET data == SessionData(st.session_file, session_id)
        before == IF session_id \in DOMAIN st.upload_folder
                  THEN st.upload_folder[session_id] ELSE <<>>
        listing == SaveFiles(before, uploaded)
        saved == [st EXCEPT !.upload_folder = cache_set(@, session_id, listing)]
        r == index_documents(st.cache[session_id], session_id, listing, loaded, parsed)
        indexed == [saved EXCEPT !.cache[session_id] = r.cache]
    IN  IF uploaded = <<>>
        THEN [st |-> saved, success |-> FALSE, index_status |-> "not called",
              exc |-> "none"]
        ELSE IF r.status # "returned"
        THEN [st |-> indexed, success |-> FALSE, index_status |-> r.status,
              exc |-> r.exc]
        ELSE [st |-> [indexed EXCEPT
                        !.RAG_models = cache_set(@, session_id, r.handle),
                        !.session_file = cache_set(@, session_id,
                            [data EXCEPT !.indexed_files = @ \o uploaded])],
              success |-> TRUE, index_status |-> r.status, exc |-> "none"]

\* chat, lines 230-299: the query branch.  r is the outcome of the call of
\* retrieve_documents at line 246, made on rag_model and the state st;
\* generated is the outcome of lines 250-265 (generate_response and the
\* section references), which touch none of the state.
chat_query(st, session_id, r, generated) ==
    LET data == SessionData(st.session_file, session_id)
        retrieved == [st EXCEPT !.dirs = r.fs.dirs, !.files = r.fs.files]
        chat_history == data.chat_history \o <<"user", "assistant">>
    IN  IF session_id \notin DOMAIN st.RAG_models
        THEN [st |-> st, success |-> FALSE, retrieved |-> FALSE, val |-> <<>>]
        ELSE IF r.status = "raised" \/ generated.exc # "none"
        THEN [st |-> retrieved, success |-> FALSE, retrieved |-> TRUE, val |-> r.val]
        ELSE [st |-> [retrieved EXCEPT !.session_file = cache_set(@, session_id,
                          [data EXCEPT !.chat_history = chat_history,
                                       !.session_name =
                                           IF Len(chat_history) = 2
                                           THEN "query" ELSE @])],
              success |-> TRUE, retrieved |-> TRUE, val |-> r.val]

\* lines 323-330
switch_session(st, session_id, from_index) ==
    IF session_id \notin DOMAIN st.RAG_models
    THEN [st EXCEPT !.RAG_models =
             load_rag_model_for_session(@, st.cache, session_id, from_index)]
    ELSE st

\* dict.pop(key, None), os.remove and shutil.rmtree of what is there
remove(d, key) == [k \in DOMAIN d \ {key} |-> d[k]]

\* lines 352-379: the session file, the upload folder, the image folder and
\* the registered handle go; nothing of .byaldi/<session_id> is touched
delete_session(st, session_id) ==
    [st EXCEPT !.session_file = remove(@, session_id),
               !.upload_folder = remove(@, session_id),
               !.dirs = @ \ {session_id},
               !.files[session_id] = EmptyCache,
               !.RAG_models = remove(@, session_id)]

\* the variables take the values of st
Becomes(st) ==
    /\ cache' = st.cache
    /\ dirs' = st.dirs
    /\ files' = st.files
    /\ RAG_models' = st.RAG_models
    /\ INITIALIZATION_DONE' = st.INITIALIZATION_DONE
    /\ session_file' = st.session_file
    /\ upload_folder' = st.upload_folder

\* One action per request, the requests handled one at a time; every request
\* but the first finds INITIALIZATION_DONE set by the before_request hook.
InitializeApp(from_index) ==
    /\ ~INITIALIZATION_DONE
    /\ Becomes(initialize_app(State, from_index))
    /\ last' = [op |-> "initialize_app"]
    /\ UNCHANGED req

ChatUpload(session_id, uploaded, loaded, parsed) ==
    /\ INITIALIZATION_DONE
    /\ \E r \in {chat_upload(State, session_id, uploaded, loaded, parsed)} :
          /\ Becomes(r.st)
          /\ last' = [op |-> "chat_upload", s |-> session_id, success |-> r.success,
                      index_status |-> r.index_status, exc |-> r.exc]
    /\ UNCHANGED req

\* the handle is there (line 241) and keeps a disk cache / keeps none
OnDisk(session_id) ==
    session_id \in DOMAIN RAG_models /\ DiskMode(RAG_models[session_id])

OnNative(session_id) ==
    session_id \in DOMAIN RAG_models /\ ~DiskMode(RAG_models[session_id])

ChatQuery(session_id) ==
    /\ INITIALIZATION_DONE
    /\ Len(SessionData(session_file, session_id).chat_history) < MaxHistory
    /\ \E encoded \in IF OnDisk(session_id) THEN EncodeOutcomes ELSE {NotCalled} :
       \E native1 \in IF OnNative(session_id)
                      THEN NativeOutcomes(DefaultK) ELSE {NotCalled} :
       \E primary \in IF session_id \in DOMAIN RAG_models
                      THEN {PrimaryPath(RAG_models[session_id],
                                StoreIn(cache, RAG_models[session_id]), session_id,
                                DefaultK, encoded, native1, FS)}
                      ELSE {NotCalled} :
       \E native2 \in IF Handler(primary.exc) = "fallback"
                      THEN NativeOutcomes(DefaultK) ELSE {NotCalled} :
       \E generated \in IF session_id \in DOMAIN RAG_models
                        THEN {Ok(<<>>), Raise("RuntimeError")} ELSE {NotCalled} :
       \E retrieved \in IF session_id \in DOMAIN RAG_models
                        THEN {retrieve_documents(RAG_models[session_id],
                                 StoreIn(cache, RAG_models[session_id]), session_id,
                                 DefaultK, encoded, native1, native2, FS)}
                        ELSE {NotCalled} :
       \E r \in {chat_query(State, session_id, retrieved, generated)} :
          /\ Becomes(r.st)
          /\ last' = [op |-> "chat_query", s |-> session_id, success |-> r.success,
                      retrieved |-> r.retrieved, val |-> r.val]
    /\ UNCHANGED req

SwitchSession(session_id, from_index) ==
    /\ INITIALIZATION_DONE
    /\ Becomes(switch_session(State, session_id, from_index))
    /\ last' = [op |-> "switch_session", s |-> session_id]
    /\ UNCHANGED req

DeleteSession(session_id) ==
    /\ INITIALIZATION_DONE
    /\ Becomes(delete_session(State, session_id))
    /\ last' = [op |-> "delete_session", s |-> session_id]
    /\ UNCHANGED req

----------------------------------------------------------------------------
(* process_results step by step, as a request thread runs it beside others. *)
(* A step is a stretch of the code that touches the file system once:       *)
(*   "loop"   lines 69-83  take the next result, its bytes, image and name  *)
(*   "check"  line 85      os.path.exists(image_path)                       *)
(*   "open"   line 86      image.save opens the file for writing: it is     *)
(*                         created, or cut to length 0                      *)
(*   "write"  line 86      image.save writes the PNG, a byte at its place   *)
(*                         per step, then closes the file                   *)
(*   "append" lines 92-94  images.append(relative_path)                     *)
(*   "done"   line 96      return images                                    *)

\* the other variables of the application, which a step of a request leaves alone
appRest == <<RAG_models, INITIALIZATION_DONE, session_file, upload_folder>>

\* a write of byte b at offset pos (from 1) of a file; a gap reads as zeros
write_at(content, pos, b) ==
    [j \in 1 .. (IF Len(content) < pos THEN pos ELSE Len(content)) |->
        IF j = pos THEN b ELSE IF j <= Len(content) THEN content[j] ELSE 0]

\* lines 65-67: images = [], os.makedirs(session_images_folder, exist_ok=True)
MatBegin(r, results, RAG, session_id) ==
    /\ req[r].pc = "idle"
    /\ req' = [req EXCEPT ![r] = [pc |-> "loop", op |-> "process_results",
                                  s |-> session_id, RAG |-> RAG,
                                  results |-> results, images |-> <<>>,
                                  image_filename |-> <<>>, bytes |-> <<>>,
                                  pos |-> 0, exc |-> "none"]]
    /\ dirs' = dirs \cup {session_id}
    /\ UNCHANGED <<cache, files, last, appRest>>

\* lines 69-83, or line 96 when no result is left
MatNext(r) ==
    /\ req[r].pc = "loop"
    /\ IF req[r].results = <<>>
       THEN req' = [req EXCEPT ![r].pc = "done"]
       ELSE LET image_data == ImageData(Head(req[r].results), req[r].RAG)
                image == Image_open(image_data.val)
            IN  IF image_data.exc = "skip"
                THEN req' = [req EXCEPT ![r].results = Tail(@)]
                ELSE IF image_data.exc # "none"
                THEN req' = [req EXCEPT ![r].pc = "raised", ![r].exc = image_data.exc]
                ELSE IF image.exc # "none"
                THEN req' = [req EXCEPT ![r].pc = "raised", ![r].exc = image.exc]
                ELSE req' = [req EXCEPT ![r].pc = "check",
                                        ![r].image_filename = ImageFilename(image_data.val),
                                        ![r].bytes = png_bytes(image.val)]
    /\ UNCHANGED <<cache, dirs, files, last, appRest>>

\* line 85
MatCheck(r) ==
    /\ req[r].pc = "check"
    /\ req' = [req EXCEPT ![r].pc =
                  IF path_exists(files[req[r].s], req[r].image_filename)
                  THEN "append" ELSE "open"]
    /\ UNCHANGED <<cache, dirs, files, last, appRest>>

\* line 86, the open(image_path, "w+b") of Image.save
MatOpen(r) ==
    /\ req[r].pc = "open"
    /\ files' = [files EXCEPT ![req[r].s] = cache_set(@, req[r].image_filename, <<>>)]
    /\ req' = [req EXCEPT ![r].pc = "write", ![r].pos = 1]
    /\ UNCHANGED <<cache, dirs, last, appRest>>

\* line 86, the writes of Image.save, each at this thread's own file offset
MatWrite(r) ==
    /\ req[r].pc = "write"
    /\ files' = [files EXCEPT ![req[r].s] =
                    cache_set(@, req[r].image_filename,
                              write_at(@[req[r].image_filename], req[r].pos,
                                       req[r].bytes[req[r].pos]))]
    /\ req' = [req EXCEPT ![r].pos = @ + 1,
                          ![r].pc = IF req[r].pos = Len(req[r].bytes)
                                    THEN "append" ELSE "write"]
    /\ UNCHANGED <<cache, dirs, last, appRest>>

\* lines 92-94
MatAppend(r) ==
    /\ req[r].pc = "append"
    /\ req' = [req EXCEPT ![r].pc = "loop",
                          ![r].results = Tail(@),
                          ![r].images = Append(@, RelativePath(req[r].s,
                                                               req[r].image_filename))]
    /\ UNCHANGED <<cache, dirs, files, last, appRest>>

----------------------------------------------------------------------------
(* initialize_app step by step, as the request threads of the server run    *)
(* the before_request hook:                                                 *)
(*   "idle"  line 110  read app.config['INITIALIZATION_DONE']               *)
(*   "load"  line 111  load_existing_indexes()                              *)
(*   "set"   line 112  app.config['INITIALIZATION_DONE'] = True             *)
(*   "view"            the view function of the request runs                *)
(* loads counts the runs of load_existing_indexes by the thread.            *)

Loads(r) == IF "loads" \in DOMAIN req[r] THEN req[r].loads ELSE 0

\* line 110
InitCheck(r) ==
    /\ req[r].pc = "idle"
    /\ req' = [req EXCEPT ![r] = [pc |-> IF INITIALIZATION_DONE THEN "view" ELSE "load",
                                  op |-> "initialize_app", loads |-> Loads(r)]]
    /\ UNCHANGED <<cache, dirs, files, last, appRest>>

\* line 111
InitLoad(r, from_index) ==
    /\ req[r].pc = "load"
    /\ RAG_models' = load_existing_indexes(RAG_models, cache, from_index)
    /\ req' = [req EXCEPT ![r].pc = "set", ![r].loads = @ + 1]
    /\ UNCHANGED <<cache, dirs, files, last, INITIALIZATION_DONE, session_file,
                   upload_folder>>

\* line 112
InitSet(r) ==
    /\ req[r].pc = "set"
    /\ INITIALIZATION_DONE' = TRUE
    /\ req' = [req EXCEPT ![r].pc = "view"]
    /\ UNCHANGED <<cache, dirs, files, last, RAG_models, session_file, upload_folder>>

\* the request is handled, and the thread is free for the next one
View(r) ==
    /\ req[r].pc = "view"
    /\ req' = [req EXCEPT ![r].pc = "idle"]
    /\ UNCHANGED <<cache, dirs, files, last, appRest>>

----------------------------------------------------------------------------
(* index_documents step by step, as a request thread runs it beside the     *)
(* queries of other requests:                                               *)
(*   "idle"  lines 44-51  convert_docs_to_pdfs, from_pretrained             *)
(*   "bind"  lines 52-53  RAG.use_disk_storage = True,                      *)
(*                        RAG.disk_cache = disk_cache                       *)
(*   "loop"  lines 56-82  the store is opened and the pages are written     *)
(*   "raised" lines 83-85 the exception is logged and raised again          *)
(* A run leaves "bind" for "loop" only where the name disk_cache is bound   *)
(* at line 53.                                                              *)

IndexStart(r, s, listing, loaded, parsed) ==
    /\ req[r].pc = "idle"
    /\ req' = [req EXCEPT ![r] = [pc |-> IF loaded.exc = "none" THEN "bind" ELSE "raised",
                                  op |-> "index_documents", s |-> s,
                                  listing |-> listing, parsed |-> parsed,
                                  loaded |-> loaded.exc = "none",
                                  exc |-> loaded.exc]]
    /\ UNCHANGED <<cache, dirs, files, last, appRest>>

IndexBind(r) ==
    /\ req[r].pc = "bind"
    /\ req' = [req EXCEPT ![r].pc = IF LocalBound(53) THEN "loop" ELSE "raised",
                          ![r].exc = IF LocalBound(53) THEN "none"
                                     ELSE "UnboundLocalError"]
    /\ UNCHANGED <<cache, dirs, files, last, appRest>>

----------------------------------------------------------------------------
(* Specifications.  Each one draws the arguments of the calls it makes from *)
(* the small sets named here.                                               *)

MaxResults == 2     \* length of a result list handed to process_results

DictResults == {DictResult(compute_similarity(<<10, 0>>, <<10, 0>>), image, <<>>) :
                    image \in Images}

ResultLists(RAG) ==
    IF DiskMode(RAG)
    THEN SeqsUpTo(DictResults, MaxResults)
    ELSE SeqsUpTo({NativeResult(b) : b \in NativePayloads}, MaxResults)

\* Spec: retrieve_documents over the store of s1, which holds at most the
\* first page of a.pdf
Key0 == BaseKey(FileA, 0)

Next ==
    \/ \E image \in {PNG1, BAD} : StoreImage("s1", Key0, image)
    \/ StoreEmbedding("s1", Key0, <<10, 0>>)
    \/ \E RAG \in Handles, session_id \in Sessions, k \in 0 .. MaxK :
          RetrieveDocuments(RAG, session_id, k)

Spec == Init /\ [][Next]_vars

\* SpecSearch: retrieve_from_disk over every content of the store of s1
NextSearch ==
    \/ \E key \in BaseKeys : StoreImage("s1", key, PNG1)
    \/ \E key \in BaseKeys, e \in Embeddings : StoreEmbedding("s1", key, e)
    \/ \E RAG \in Handles, encoded \in EncodeOutcomes, k \in 0 .. MaxK :
          RetrieveFromDisk(RAG, encoded, k)

SpecSearch == Init /\ [][NextSearch]_vars

\* SpecStore: the four accessors of the DiskCacheIndexer of s1
NextStore ==
    \E key \in BaseKeys :
        \/ \E image \in Images : StoreImage("s1", key, image)
        \/ \E e \in Embeddings : StoreEmbedding("s1", key, e)
        \/ GetImage("s1", key)
        \/ GetEmbedding("s1", key)

SpecStore == Init /\ [][NextStore]_vars

\* SpecIndex: index_documents on the upload folder of a session
NextIndex ==
    \E s \in Sessions, listing \in Listings, loaded \in LoadOutcomes :
    \E pa \in ParseOutcomes(FileA), pb \in ParseOutcomes(FileB) :
        IndexDocuments(s, listing, loaded,
            [f \in AllFiles |-> IF f = FileA THEN pa
                                ELSE IF f = FileB THEN pb ELSE Raise("PdfError")])

SpecIndex == Init /\ [][NextIndex]_vars

\* SpecMat: process_results on result lists of either kind
NextMat ==
    \E RAG \in {NativeHandle, DiskHandle("s1")}, session_id \in Sessions :
    \E results \in ResultLists(RAG) :
        ProcessResults(results, RAG, session_id)

SpecMat == Init /\ [][NextMat]_vars

\* SpecRace: two request threads, each in process_results on the results of
\* a disk search, their steps interleaved
RaceImages == {PNG1, JPG2}

RaceResults ==
    SeqsUpTo({DictResult(compute_similarity(<<10, 0>>, <<10, 0>>), image, <<>>) :
                 image \in RaceImages}, MaxResults)

NextRace ==
    \E r \in Requests :
        \/ \E results \in RaceResults \ {<<>>}, session_id \in Sessions :
              MatBegin(r, results, DiskHandle(session_id), session_id)
        \/ MatNext(r)
        \/ MatCheck(r)
        \/ MatOpen(r)
        \/ MatWrite(r)
        \/ MatAppend(r)

SpecRace == Init /\ [][NextRace]_vars

\* SpecApp: the requests of app.py, one at a time, on two sessions whose
\* stores get the image of a page through DiskCacheIndexer
Uploads == {<<>>, <<FileA>>}

NextApp ==
    \/ \E s \in Sessions : StoreImage(s, Key0, PNG1)
    \/ \E from_index \in [Sessions -> FromIndexOutcomes] : InitializeApp(from_index)
    \/ \E s \in Sessions, uploaded \in Uploads, loaded \in LoadOutcomes :
          ChatUpload(s, uploaded, loaded, [f \in AllFiles |-> Ok(PagesOf(f, 1))])
    \/ \E s \in Sessions : ChatQuery(s)
    \/ \E s \in Sessions, from_index \in FromIndexOutcomes : SwitchSession(s, from_index)
    \/ \E s \in Sessions : DeleteSession(s)

SpecApp == Init /\ [][NextApp]_vars

\* SpecInit: the first requests of a process, on two threads, with the
\* stores of .byaldi as earlier runs left them
NextInit ==
    \/ \E s \in Sessions : StoreImage(s, Key0, PNG1)
    \/ \E r \in Requests :
          \/ InitCheck(r)
          \/ \E from_index \in [Sessions -> FromIndexOutcomes] : InitLoad(r, from_index)
          \/ InitSet(r)
          \/ View(r)

SpecInit == Init /\ [][NextInit]_vars

\* SpecIndexRace: indexing runs of a session on the request threads, and
\* disk searches of the sessions between their steps
NextIndexRace ==
    \/ \E r \in Requests, s \in Sessions, listing \in Listings, loaded \in LoadOutcomes :
       \E pa \in ParseOutcomes(FileA) :
          IndexStart(r, s, listing, loaded,
              [f \in AllFiles |-> IF f = FileA THEN pa ELSE Raise("PdfError")])
    \/ \E r \in Requests : IndexBind(r)
    \/ \E s \in Sessions, encoded \in {Ok(<<10, 0>>)}, k \in 0 .. MaxK :
          RetrieveFromDisk(DiskHandle(s), encoded, k)

SpecIndexRace == Init /\ [][NextIndexRace]_vars

----------------------------------------------------------------------------
(* Claims about retrieve_documents, under Spec *)

Retrieved == last.op = "retrieve_documents"

\* C1: retrieve_documents never raises to its caller: whatever the handle,
\* the cache and the failure, the call returns a sequence of paths, and a
\* failure of the primary path is reported as an empty result.
C1_NeverRaises ==
    Retrieved =>
        /\ last.status = "returned"
        /\ last.primary_exc # "none" /\ last.fallbacks = 0 => last.val = <<>>

\* C2 as stated: on a failure of the primary dispatch path, of whatever kind,
\* the native search is attempted exactly once as a fallback, and it is never
\* attempted otherwise.
C2_FallbackOnAnyFailure ==
    Retrieved => last.fallbacks = (IF last.primary_exc # "none" THEN 1 ELSE 0)

\* C2 as amended: the native search is attempted as a fallback exactly once
\* when the primary path raised an AttributeError and not at all otherwise;
\* a failure of any other kind returns the empty sequence without a fallback.
C2_FallbackOnAttributeError ==
    Retrieved =>
        /\ last.fallbacks = (IF last.primary_exc = "AttributeError" THEN 1 ELSE 0)
        /\ last.primary_exc \notin {"none", "AttributeError"} =>
              last.status = "returned" /\ last.val = <<>>

\* a call whose primary path raised AttributeError and whose fallback gave a page
C2_Witness ==
    /\ Retrieved
    /\ last.primary_exc = "AttributeError"
    /\ last.fallbacks = 1
    /\ last.status = "returned"
    /\ Len(last.val) > 0

----------------------------------------------------------------------------
(* Claims about index_documents, under SpecIndex *)

Indexed == last.op = "index_documents"

\* the documents of the folder that the loop hands to the encoder
PdfsOf(listing) == {listing[j] : j \in 1 .. Len(listing)} \cap {f \in AllFiles : endswith(f, ".pdf")}

\* both keys of the first n pages of the file are in the store
PagesStored(c, file, n) ==
    \A i \in 0 .. n - 1 :
        /\ ImageKey(BaseKey(file, i)) \in DOMAIN c
        /\ EmbeddingKey(BaseKey(file, i)) \in DOMAIN c

\* C3: when the encoder initializes and every document parses, index_documents
\* returns a handle marked disk-backed whose cache at index_path holds, for
\* every PDF of the folder and every page, the keys {file}_{i}_image and
\* {file}_{i}_embedding.
C3_IndexPopulates ==
    /\ Indexed
    /\ last.loaded
    /\ \A f \in PdfsOf(last.listing) : last.parsed[f].exc = "none"
    => /\ last.status = "returned"
       /\ last.handle = DiskHandle(last.s)
       /\ \A f \in PdfsOf(last.listing) :
             PagesStored(cache[last.s], f, Len(last.parsed[f].val))

\* C4: a document that fails to parse fails alone: with the encoder
\* initialized, indexing goes on and returns with the pages of every parseable
\* document stored; only a failure to initialize the encoder aborts the call.
C4_PerFileFailure ==
    Indexed =>
        /\ ~last.loaded => last.status = "raised"
        /\ /\ last.loaded
           /\ \E f \in PdfsOf(last.listing) : last.parsed[f].exc # "none"
           => /\ last.status = "returned"
              /\ \A f \in PdfsOf(last.listing) :
                    last.parsed[f].exc = "none" =>
                        PagesStored(cache[last.s], f, Len(last.parsed[f].val))

----------------------------------------------------------------------------
(* Claims about the store and retrieve_from_disk, under SpecSearch *)

\* C5: in every reachable state every key {base}_embedding has its key
\* {base}_image, and every key {base}_image its key {base}_embedding.
C5_Pairing ==
    \A s \in Sessions : \A key \in DOMAIN cache[s] :
        /\ endswith(key, "_embedding") =>
              replace(key, "_embedding", "_image") \in DOMAIN cache[s]
        /\ endswith(key, "_image") =>
              replace(key, "_image", "_embedding") \in DOMAIN cache[s]

Searched == last.op = "retrieve_from_disk" /\ last.encoded.exc = "none"

\* the _embedding keys whose own bytes and whose sibling image both load
ValidKeys(c) ==
    {key \in DOMAIN c :
        /\ endswith(key, "_embedding")
        /\ pickle_loads(cache_get(c, key)).exc = "none"
        /\ pickle_loads(cache_get(c, replace(key, "_embedding", "_image"))).exc = "none"}

EmbeddingKeys(c) == {key \in DOMAIN c : endswith(key, "_embedding")}

ResultKeys(val) == {val[j].key : j \in 1 .. Len(val)}

\* C6: the search fails soft per entry: an _embedding key without its _image
\* key (or with bytes that do not load) is skipped, and the query still
\* returns results, all of them valid entries, and all the valid entries when
\* k allows.
C6_FailSoft ==
    Searched =>
        /\ last.exc = "none"
        /\ ResultKeys(last.val) \subseteq ValidKeys(cache[last.s])
        /\ last.k >= Cardinality(ValidKeys(cache[last.s])) =>
              ResultKeys(last.val) = ValidKeys(cache[last.s])

\* C7: for every cache content and every k >= 0 the search returns at most k
\* results and at least min(k, number of valid entries); on an empty cache it
\* returns the empty sequence and no error.
C7_ResultCount ==
    Searched =>
        /\ Len(last.val) <= last.k
        /\ Len(last.val) >= Min(last.k, Cardinality(ValidKeys(cache[last.s])))
        /\ DOMAIN cache[last.s] = {} => last.exc = "none" /\ last.val = <<>>

\* The similarity the ranking is stated in: the cosine, and 0 when a norm is 0.
RankSimilarity(query_embedding, c, key) ==
    LET sim == compute_similarity(query_embedding, pickle_loads(cache_get(c, key)).val)
    IN  IF sim.nan THEN [nan |-> FALSE, dot |-> 0, nn |-> 1] ELSE sim

\* key1 ranks before key2: higher similarity, or equal similarity and the
\* lexically smaller key
RanksBefore(query_embedding, c, key1, key2) ==
    LET s1 == RankSimilarity(query_embedding, c, key1)
        s2 == RankSimilarity(query_embedding, c, key2)
    IN  \/ FloatLess(s2, s1)
        \/ ~FloatLess(s1, s2) /\ KeyLess(key1, key2)

\* C8: on a cache whose entries are all valid, the search returns the k entries
\* of highest cosine similarity, in descending order of similarity, entries of
\* equal similarity in the lexical order of their keys.
C8_Ranking ==
    Searched /\ EmbeddingKeys(cache[last.s]) = ValidKeys(cache[last.s]) =>
        /\ last.exc = "none"
        /\ Len(last.val) = Min(last.k, Cardinality(ValidKeys(cache[last.s])))
        /\ \A i, j \in 1 .. Len(last.val) :
              i < j => RanksBefore(last.encoded.val, cache[last.s],
                                   last.val[i].key, last.val[j].key)
        /\ \A key \in ValidKeys(cache[last.s]) \ ResultKeys(last.val) :
              \A j \in 1 .. Len(last.val) :
                  RanksBefore(last.encoded.val, cache[last.s], last.val[j].key, key)

----------------------------------------------------------------------------
(* Claims about process_results, under SpecMat *)

Materialized == last.op = "process_results"

\* the result carries image bytes and they decode as an image
Usable(result, RAG) ==
    /\ ImageData(result, RAG).exc = "none"
    /\ Image_open(ImageData(result, RAG).val).exc = "none"

\* the result is usable, or carries no image data at all
Decodable(result, RAG) == Usable(result, RAG) \/ ImageData(result, RAG).exc = "skip"

\* one relative path per usable result, in input order
RECURSIVE ExpectedPaths(_, _, _)
ExpectedPaths(results, RAG, session_id) ==
    IF results = <<>> THEN <<>>
    ELSE LET rest == ExpectedPaths(Tail(results), RAG, session_id)
         IN  IF Usable(Head(results), RAG)
             THEN <<RelativePath(session_id,
                                 ImageFilename(ImageData(Head(results), RAG).val))>> \o rest
             ELSE rest

\* C9: process_results returns one relative path per usable result, in input
\* order; a result without image data or with bytes that do not decode is
\* skipped, and the call does not raise.
C9_SkipsUnusable ==
    Materialized =>
        /\ last.exc = "none"
        /\ last.val = ExpectedPaths(last.results, last.RAG, last.s)

Count(seq, x) == Cardinality({j \in 1 .. Len(seq) : seq[j] = x})

\* C10: materialization is idempotent by content.  A call whose image bytes
\* all decode does not raise and returns one path per occurrence, the same
\* path for the same bytes; it writes a file once if the session's directory
\* did not hold it and not at all if it did, whether the bytes come twice in
\* one call or again in a later call; it leaves the files already there as
\* they were.
C10_Idempotent ==
    [][ /\ last'.op = "process_results"
        /\ \A j \in 1 .. Len(last'.results) : Decodable(last'.results[j], last'.RAG)
        => LET paths == ExpectedPaths(last'.results, last'.RAG, last'.s)
               names == {paths[j][3] : j \in 1 .. Len(paths)}
           IN  /\ last'.exc = "none"
               /\ last'.val = paths
               /\ \A name \in names :
                     Count(last'.written, RelativePath(last'.s, name))
                         = (IF name \in DOMAIN files[last'.s] THEN 0 ELSE 1)
               /\ Len(last'.written) = Cardinality(names \ DOMAIN files[last'.s])
               /\ DOMAIN files'[last'.s] = DOMAIN files[last'.s] \cup names
               /\ \A name \in DOMAIN files[last'.s] :
                     files'[last'.s][name] = files[last'.s][name]
      ]_vars

\* a call that is handed the same bytes twice, their file not there before:
\* two equal paths, one file written
C10_Witness ==
    /\ Materialized
    /\ last.exc = "none"
    /\ Len(last.val) = 2
    /\ last.val[1] = last.val[2]
    /\ last.written = <<last.val[1]>>

----------------------------------------------------------------------------
(* Claims about concurrent materialization, under SpecRace *)

\* the file of that name holds the whole PNG of the bytes it is named after
Complete(dir, name) ==
    /\ name \in DOMAIN dir
    /\ \E image \in Images :
          /\ Image_open(image).exc = "none"
          /\ ImageFilename(image) = name
          /\ dir[name] = png_bytes(Image_open(image).val)

\* C11: two materializations of one session may race: under every
\* interleaving of their existence checks and file writes, every path that a
\* request returns names a file that is wholly written at that moment, and
\* whenever no write is under way every file of the directory is whole.
C11_SafeRace ==
    [][ /\ \A r \in Requests :
              req[r].pc # "done" /\ req'[r].pc = "done" =>
                  \A j \in 1 .. Len(req'[r].images) :
                      Complete(files'[req'[r].s], req'[r].images[j][3])
        /\ (\A r \in Requests : req'[r].pc # "write") =>
              \A s \in Sessions : \A name \in DOMAIN files'[s] :
                  Complete(files'[s], name)
      ]_vars

----------------------------------------------------------------------------
(* Claims about the sessions of the application, under SpecApp *)

\* C12: sessions are isolated.  A query of session A reads through a handle
\* that keeps A's store or none, changes no store, writes files only in A's
\* directory and returns only paths images/A/<name> of files that A's
\* directory holds (its own copy, also when B's directory holds the same
\* name); no request on A (upload, switch, delete) changes a file, a
\* directory or a store entry of another session.
C12_Isolation ==
    [][ /\ last'.op = "chat_query" =>
              /\ cache' = cache
              /\ last'.s \in DOMAIN RAG_models /\ DiskMode(RAG_models[last'.s]) =>
                     RAG_models[last'.s].disk_cache = last'.s
              /\ \A j \in 1 .. Len(last'.val) :
                     /\ last'.val[j][1] = "images"
                     /\ last'.val[j][2] = last'.s
                     /\ last'.val[j][3] \in DOMAIN files'[last'.s]
        /\ last'.op \in {"chat_query", "chat_upload", "switch_session", "delete_session"} =>
              \A B \in Sessions \ {last'.s} :
                  /\ files'[B] = files[B]
                  /\ B \in dirs' <=> B \in dirs
                  /\ cache'[B] = cache[B]
      ]_vars

\* a query of s2 returned the path of a page whose bytes s1 has materialized
\* too: each directory holds its own file of that name
C12_Witness ==
    /\ last.op = "chat_query"
    /\ last.s = "s2"
    /\ Len(last.val) > 0
    /\ last.val[1][3] \in DOMAIN files["s1"]
    /\ last.val[1][3] \in DOMAIN files["s2"]
    /\ files["s1"][last.val[1][3]] = files["s2"][last.val[1][3]]

----------------------------------------------------------------------------
(* Claims about the accessors of DiskCacheIndexer, under SpecStore *)

\* C13: a read sees the last write.  store_image(key, v) makes get_image(key)
\* return v, whether or not the key held a value before, and changes what no
\* other accessor returns; the same for store_embedding and get_embedding; a
\* read returns what the store holds and changes nothing.  By induction over
\* the calls, get_image(key) and get_embedding(key) return the value of the
\* most recent store of the key.
C13_LastWriteWins ==
    [][ /\ last'.op = "store_image" =>
              /\ get_image(cache'[last'.s], last'.key) = Ok(last'.value)
              /\ \A key \in BaseKeys \ {last'.key} :
                     get_image(cache'[last'.s], key) = get_image(cache[last'.s], key)
              /\ \A key \in BaseKeys :
                     get_embedding(cache'[last'.s], key)
                         = get_embedding(cache[last'.s], key)
        /\ last'.op = "store_embedding" =>
              /\ get_embedding(cache'[last'.s], last'.key) = Ok(last'.value)
              /\ \A key \in BaseKeys \ {last'.key} :
                     get_embedding(cache'[last'.s], key)
                         = get_embedding(cache[last'.s], key)
              /\ \A key \in BaseKeys :
                     get_image(cache'[last'.s], key) = get_image(cache[last'.s], key)
        /\ last'.op = "get_image" =>
              /\ cache' = cache
              /\ [exc |-> last'.exc, val |-> last'.val]
                     = get_image(cache[last'.s], last'.key)
        /\ last'.op = "get_embedding" =>
              /\ cache' = cache
              /\ [exc |-> last'.exc, val |-> last'.val]
                     = get_embedding(cache[last'.s], last'.key)
      ]_vars

\* a second store_image on a key, with bytes other than PNG1, which the key
\* then holds while its embedding stays as stored
C13_Witness ==
    /\ last.op = "store_image"
    /\ last.existed
    /\ last.value # PNG1
    /\ get_image(cache[last.s], last.key) = Ok(last.value)
    /\ get_embedding(cache[last.s], last.key).exc = "none"

\* C14: get_image and get_embedding on a key that was never stored fail with
\* NotFoundError.
C14_NotFound ==
    /\ last.op = "get_image" /\ ImageKey(last.key) \notin DOMAIN cache[last.s]
          => last.exc = "NotFoundError"
    /\ last.op = "get_embedding" /\ EmbeddingKey(last.key) \notin DOMAIN cache[last.s]
          => last.exc = "NotFoundError"

----------------------------------------------------------------------------
(* Claims about the dispatch of retrieve_documents, under Spec *)

\* the image bytes a result carries, by its own shape: the image of a dict,
\* the decoded base64 of a native result, "skip" when it carries none
ResultBytes(result) ==
    IF result.kind = "dict" THEN Ok(result.image)
    ELSE IF result.base64 # None /\ result.base64 # <<>> THEN b64decode(result.base64)
    ELSE [exc |-> "skip", val |-> <<>>]

\* every result carries no bytes or bytes of an image
AllDecode(results) ==
    \A j \in 1 .. Len(results) :
        \/ ResultBytes(results[j]).exc = "skip"
        \/ /\ ResultBytes(results[j]).exc = "none"
           /\ Image_open(ResultBytes(results[j]).val).exc = "none"

\* the relative paths of the results that carry bytes, in order
RECURSIVE PathsOf(_, _)
PathsOf(results, session_id) ==
    IF results = <<>> THEN <<>>
    ELSE IF ResultBytes(Head(results)).exc = "none"
    THEN <<RelativePath(session_id, ImageFilename(ResultBytes(Head(results)).val))>>
             \o PathsOf(Tail(results), session_id)
    ELSE PathsOf(Tail(results), session_id)

\* C15: whichever search serves the query, its results are materialized and
\* the caller gets their relative paths: those of the disk search for a
\* disk-backed handle, those of the native search otherwise, and those of the
\* native search of the fallback when the call falls back (for results whose
\* bytes all decode).
C15_Dispatch ==
    Retrieved =>
        LET served == IF DiskMode(last.RAG)
                      THEN retrieve_from_disk(cache[last.RAG.disk_cache],
                                              last.encoded, last.k)
                      ELSE last.native1
        IN  /\ served.exc = "none" /\ AllDecode(served.val) =>
                  /\ last.status = "returned"
                  /\ last.fallbacks = 0
                  /\ last.val = PathsOf(served.val, last.s)
            /\ /\ last.fallbacks = 1
               /\ last.native2.exc = "none"
               /\ AllDecode(last.native2.val)
               => /\ last.status = "returned"
                  /\ last.val = PathsOf(last.native2.val, last.s)

----------------------------------------------------------------------------
(* Claim about compute_similarity, as retrieve_from_disk applies it, under  *)
(* SpecSearch                                                               *)

\* C16: the similarity of every result is a number, never nan, and it is 0
\* when the query vector or the stored vector has norm 0.
C16_ZeroNorm ==
    Searched /\ last.exc = "none" =>
        \A j \in 1 .. Len(last.val) :
            LET embedding == pickle_loads(cache_get(cache[last.s], last.val[j].key)).val
                zero == \/ dot(last.encoded.val, last.encoded.val) = 0
                        \/ dot(embedding, embedding) = 0
            IN  /\ ~last.val[j].similarity.nan
                /\ zero => last.val[j].similarity.dot = 0

----------------------------------------------------------------------------
(* Claims about the life of a session's index, under SpecApp *)

\* C17: the index of a session only grows under uploads, queries, session
\* switches and start-up, and delete_session(s) destroys it in full: after
\* it none of the entries of s remains in the store (so that nothing is left
\* for switch_session or the start-up loading to register again).
C17_Lifecycle ==
    [][ /\ last'.op = "delete_session" => cache'[last'.s] = EmptyCache
        /\ last'.op \in {"chat_upload", "chat_query", "switch_session",
                         "initialize_app"} =>
              \A s \in Sessions : \A key \in DOMAIN cache[s] :
                  key \in DOMAIN cache'[s] /\ cache'[s][key] = cache[s][key]
      ]_vars

----------------------------------------------------------------------------
(* Claim about start-up, under SpecInit *)

\* C18: load_existing_indexes has run, and INITIALIZATION_DONE is set, before
\* the view of any request runs, and it runs once in the life of the process,
\* however the first requests interleave.
C18_InitOnce ==
    /\ \A r \in Requests : req[r].pc = "view" =>
          INITIALIZATION_DONE /\ Loads("r1") + Loads("r2") >= 1
    /\ Loads("r1") + Loads("r2") <= 1

----------------------------------------------------------------------------
(* Claim about an indexing run and the queries beside it, under             *)
(* SpecIndexRace                                                            *)

\* the run of the request has come to its end, by return or by exception
Ended(r) == req[r].pc \in {"returned", "raised"}

Running(r) == req[r].pc \notin {"idle", "returned", "raised"}

----------------------------------------------------------------------------
(* Claim about the upload and query branches of chat, under SpecApp *)

\* C20: an upload registers a handle for its session only when
\* index_documents has returned, and then only for that session; when
\* indexing did not return, RAG_models and the session files (with their
\* indexed_files) are as before and the response says success false; a query
\* of a session with no registered handle says success false, and has
\* retrieved nothing, written no file and left the session file (with its
\* chat_history) as before.
C20_UploadFrame ==
    [][ /\ last'.op = "chat_upload" =>
              /\ last'.index_status # "returned" =>
                     /\ RAG_models' = RAG_models
                     /\ session_file' = session_file
                     /\ ~last'.success
              /\ RAG_models' # RAG_models =>
                     /\ last'.index_status = "returned"
                     /\ \A s \in Sessions \ {last'.s} :
                            /\ s \in DOMAIN RAG_models' <=> s \in DOMAIN RAG_models
                            /\ s \in DOMAIN RAG_models => RAG_models'[s] = RAG_models[s]
        /\ last'.op = "chat_query" /\ last'.s \notin DOMAIN RAG_models =>
              /\ ~last'.success
              /\ ~last'.retrieved
              /\ UNCHANGED <<cache, dirs, files, RAG_models, session_file>>
      ]_vars

\* an upload of a document whose indexing raised: the file is in the
\* session's folder, the response says failure, and no handle is registered
C20_Witness ==
    /\ last.op = "chat_upload"
    /\ last.index_status = "raised"
    /\ ~last.success
    /\ last.s \in DOMAIN upload_folder
    /\ upload_folder[last.s] # <<>>
    /\ last.s \notin DOMAIN RAG_models

----------------------------------------------------------------------------
(* Claim about the effects of retrieve_documents, under Spec *)

\* C21: retrieval only reads the stores.  Whatever the handle, k and the
\* outcome (paths, fallback, empty result, exception), a call of
\* retrieve_documents leaves every key and every stored value of every
\* store as it was, and the state of the application too; on disk it may
\* create the image directory of its session and add files to it, the files
\* it reports as written, and it changes or removes no file that was there.
C21_ReadOnly ==
    [][ last'.op = "retrieve_documents" =>
          /\ cache' = cache
          /\ UNCHANGED <<RAG_models, INITIALIZATION_DONE, session_file, upload_folder>>
          /\ dirs \subseteq dirs'
          /\ dirs' \subseteq dirs \cup {last'.s}
          /\ \A s \in Sessions \ {last'.s} : files'[s] = files[s]
          /\ \A name \in DOMAIN files[last'.s] :
                /\ name \in DOMAIN files'[last'.s]
                /\ files'[last'.s][name] = files[last'.s][name]
          /\ {RelativePath(last'.s, name) :
                 name \in DOMAIN files'[last'.s] \ DOMAIN files[last'.s]}
                = {last'.written[j] : j \in 1 .. Len(last'.written)}
      ]_vars

\* a disk search that read a pair of the store and wrote the file of its
\* image, the store still holding the pair
C21_Witness ==
    /\ Retrieved
    /\ DiskMode(last.RAG)
    /\ last.status = "returned"
    /\ Len(last.written) = 1
    /\ last.val = last.written
    /\ PagesStored(cache[last.RAG.disk_cache], FileA, 1)

====
